---- MODULE Spec2Model ----
(***************************************************************************)
(* The three task heads of models/bert_models.py                           *)
(* (BertForSequenceClassification, BertForSequenceLabeling,                *)
(* BertForQuestionAnswering) over the external BERT encoder.               *)
(*                                                                         *)
(* Tensors are nested sequences of integers.  A tensor element n stands    *)
(* for the float32 value n * 2^-26 (encoder outputs, biases, logits) and   *)
(* a weight n for the float32 value n; for the small magnitudes used here  *)
(* all of these are exactly representable, so the linear projection is     *)
(* exact.  exp, the sum and the division inside softmax are float32        *)
(* operations with round-to-nearest-even and are modelled bit-exactly in   *)
(* that window (ExpF, FAdd, FDiv).  Indices returned by argmax are         *)
(* 0-based as in torch; sequences are 1-based.                             *)
(***************************************************************************)
EXTENDS Integers, Sequences, FiniteSets, TLC

(* ------------------------------ bounds --------------------------------- *)
MaxBatch == 2
MaxSeqLen == 2
MaxClasses == 2
RngPeriod == 3

(* ------------------- encoder configuration (bert.py) -------------------- *)
\* BertConfig: hidden_size, vocab_size, max_position_embeddings, type_vocab_size
HiddenSize == 2
VocabSize == 3
MaxPosition == 4
TypeVocabSize == 2

\* nn.Dropout(0.1): p = DropNum / DropDen
DropNum == 1
DropDen == 10
\* nn.Linear(hidden_size, 2) of the question-answering head
QAOutputUnits == 2

\* RNG seeds that decide nn.Linear's initial weight and bias
Seeds == {0, 1, 2}
\* tf_checkpoint_path values; NoPath is Python's None
NoPath == "None"
Paths == {NoPath, "bert_model.ckpt", "missing.ckpt"}
Kinds == {"sc", "sl", "qa"}

VARIABLES head, ctor, inp, rng, call, repeat
vars == <<head, ctor, inp, rng, call, repeat>>

(* ------------------------- float32 arithmetic --------------------------- *)
\* 1.0 in units of 2^-24 (the ulp of float32 in [0.5, 1))
One == 2^24

\* float32 exp(-d * 2^-26), d >= 0 small, in units of 2^-24:
\* 1 - d/4 ulp, rounded to nearest (a tie rounds up: the exact value lies
\* just above the midpoint).
ExpF(d) == One - ((d + 1) \div 4)

\* the weight of the last kept bit when n is cut to 24 significant bits
RECURSIVE Ulp(_)
Ulp(n) == IF n < 2^24 THEN 1 ELSE 2 * Ulp(n \div 2)

\* n (with `sticky`: a nonzero part below n's unit) rounded to 24
\* significant bits, round to nearest, ties to even
FRound(n, sticky) ==
  LET u == Ulp(n)
      q == n \div u
      r == n % u
      up == \/ 2 * r > u
            \/ 2 * r = u /\ (sticky \/ q % 2 = 1)
  IN IF u = 1 THEN n ELSE IF up THEN (q + 1) * u ELSE q * u

\* float32 addition of two values in units of 2^-24
FAdd(a, b) == FRound(a + b, FALSE)

RECURSIVE FSum(_, _)
FSum(e, n) == IF n = 0 THEN 0 ELSE FAdd(FSum(e, n - 1), e[n])

\* long division in base 16: <<floor((q + r/s) * 16^n), remainder>>
RECURSIVE DivDigits(_, _, _, _)
DivDigits(r, s, q, n) ==
  IF n = 0 THEN <<q, r>>
  ELSE DivDigits((16 * r) % s, s, 16 * q + ((16 * r) \div s), n - 1)

\* float32 division e / s (0 < e <= s), in units of 2^-28
FDiv(e, s) ==
  LET qr == DivDigits(e % s, s, e \div s, 7)
  IN FRound(qr[1], qr[2] # 0)

MaxOf(x) == CHOOSE m \in {x[i] : i \in DOMAIN x} : \A i \in DOMAIN x : x[i] <= m

\* F.softmax(x, dim=-1) of one score vector
Softmax(x) ==
  LET m == MaxOf(x)
      e == [i \in DOMAIN x |-> ExpF(m - x[i])]
      s == FSum(e, Len(x))
  IN [i \in DOMAIN x |-> FDiv(e[i], s)]

\* torch.argmax(x, dim=-1) of one vector: the first position of the maximum,
\* as a 0-based index
Argmax(x) ==
  (CHOOSE i \in DOMAIN x : /\ x[i] = MaxOf(x)
                           /\ \A j \in DOMAIN x : j < i => x[j] < x[i]) - 1

(* ------------------------------ inputs --------------------------------- *)
\* The demonstration's input pattern (lines 117-119) at small shapes:
\* token indices from a sample pattern, positions 0..L-1, segment 0 for
\* the first half and 1 for the rest.
Samples == {0, 1}
TokenPattern(s, B, L) ==
  [b \in 1..B |-> [l \in 1..L |-> (s + b + l * (s + 1)) % VocabSize]]
PositionPattern(B, L) == [b \in 1..B |-> [l \in 1..L |-> l - 1]]
TypePattern(B, L) ==
  [b \in 1..B |-> [l \in 1..L |-> IF 2 * l > L + 1 THEN 1 ELSE 0]]

ValidInputs ==
  {<<TokenPattern(s, B, L), PositionPattern(B, L), TypePattern(B, L)>> :
     s \in Samples, B \in 1..MaxBatch, L \in 1..MaxSeqLen}
\* a token index outside the vocabulary
OutOfRangeInputs ==
  {<<[x[1] EXCEPT ![1][1] = VocabSize], x[2], x[3]>> : x \in ValidInputs}
\* position indices of another shape than the token indices
MisshapenInputs ==
  {<<x[1], PositionPattern(Len(x[1]), Len(x[1][1]) + 1), x[3]>> :
     x \in ValidInputs}
Inputs == ValidInputs \cup OutOfRangeInputs \cup MisshapenInputs

BatchOf(x) == Len(x[1])
SeqLenOf(x) == Len(x[1][1])

(* ------------------------ the encoder (bert.py) ------------------------- *)
TokEmb(t, k) == (k * t) % VocabSize
PosEmb(p, k) == IF k = 1 THEN 4 * p ELSE 0
TypeEmb(t, k) == IF k = HiddenSize THEN t ELSE 0

SameShape(a, b) ==
  /\ Len(a) = Len(b)
  /\ \A i \in DOMAIN a : Len(a[i]) = Len(b[i])
InRange(a, n) == \A i \in DOMAIN a : \A j \in DOMAIN a[i] : a[i][j] \in 0..(n - 1)

\* BertModel.forward(token_idxs, position_idxs, token_type_idxs):
\* raises on malformed input, else returns the per-token representation
\* (B, L, hidden_size) and the pooled one (B, hidden_size), a function of
\* the input alone.
Encoder(token_idxs, position_idxs, token_type_idxs) ==
  IF ~ /\ SameShape(token_idxs, position_idxs)
       /\ SameShape(token_idxs, token_type_idxs)
       /\ InRange(token_idxs, VocabSize)
       /\ InRange(position_idxs, MaxPosition)
       /\ InRange(token_type_idxs, TypeVocabSize)
  THEN [raised |-> TRUE]
  ELSE LET seq == [b \in DOMAIN token_idxs |-> [l \in DOMAIN token_idxs[b] |->
                    [k \in 1..HiddenSize |->
                       TokEmb(token_idxs[b][l], k)
                       + PosEmb(position_idxs[b][l], k)
                       + TypeEmb(token_type_idxs[b][l], k)]]]
       IN [raised |-> FALSE,
           sequence_output |-> seq,
           pooled_first_token_output |-> [b \in DOMAIN seq |-> seq[b][1]]]

\* BertModel.from_tf_checkpoint(path): raises for a file that is not there;
\* a path of None loads nothing.
LoadRaises(path) == path = "missing.ckpt"

(* ------------------------ nn.Linear, nn.Dropout ------------------------- *)
\* nn.Linear(in_features, out_features): weight (out, in) and bias (out),
\* initialised from the RNG
LinearInit(seed, in_features, out_features) ==
  [weight |-> [c \in 1..out_features |-> [k \in 1..in_features |->
                 ((seed + c + 2 * k) % 3) - 1]],
   bias |-> [c \in 1..out_features |-> (seed + c) % 2]]

RECURSIVE Dot(_, _, _)
Dot(x, w, n) == IF n = 0 THEN 0 ELSE Dot(x, w, n - 1) + x[n] * w[n]

\* self.linear(x) on one vector x of hidden_size elements
Linear(linear, x) ==
  [c \in DOMAIN linear.weight |-> Dot(x, linear.weight[c], Len(x)) + linear.bias[c]]

\* n / d rounded to the nearest integer
RoundDiv(n, d) == IF n >= 0 THEN (2 * n + d) \div (2 * d)
                  ELSE 0 - ((2 * (0 - n) + d) \div (2 * d))

\* The global random generator: a state in 0..RngPeriod-1 that a dropout
\* call in training mode reads and advances.  In state g the mask zeroes
\* the elements whose flat index is a multiple of g (none for g = 0).
RngStates == 0..(RngPeriod - 1)
Hit(g, j) == g > 0 /\ j % g = 0
Advance(g) == (g + 1) % RngPeriod

\* self.dropout on a tensor of n elements, generator in state g: inactive
\* in evaluation mode; in training mode it draws the mask and advances the
\* generator.
DropoutAlways(training, g, n) ==
  [active |-> TRUE, hits |-> {j \in 1..n : Hit(g, j)}, rng |-> Advance(g)]
Dropout(training, g, n) ==
  IF ~training THEN [active |-> FALSE, hits |-> {}, rng |-> g]
  ELSE [active |-> TRUE, hits |-> {j \in 1..n : Hit(g, j)}, rng |-> Advance(g)]

\* element j of the dropout's output: the element itself when dropout is
\* inactive, else 0 when the mask zeroes it and the element scaled by
\* 1 / (1 - p) otherwise (rounded to the value grid)
Dropped(d, v, j) ==
  IF ~d.active THEN v
  ELSE IF j \in d.hits THEN 0 ELSE RoundDiv(v * DropDen, DropDen - DropNum)

\* flat (row-major) index of an element of a (B, H) or (B, L, H) tensor
Flat2(b, k) == (b - 1) * HiddenSize + k
Flat3(L, b, l, k) == ((b - 1) * L + (l - 1)) * HiddenSize + k

NoOut == <<>>
\* the outcome of a call: the head and the generator after it, and what the
\* caller gets
Raise(self, g, n) ==
  [self |-> self, rng |-> g, raised |-> TRUE, encCalls |-> n, dropped |-> {},
   logits |-> NoOut, ret |-> NoOut]
Return(self, g, dropped, logits) ==
  [self |-> self, rng |-> g, raised |-> FALSE, encCalls |-> 1, dropped |-> dropped,
   logits |-> logits, ret |-> logits]

(* ------------------- BertForSequenceClassification ---------------------- *)
\* forward (lines 19-28): the pooled output through dropout and the linear
\* layer; an encoder exception propagates.
SCForward(self, x, g) ==
  LET enc == Encoder(x[1], x[2], x[3])
  IN IF enc.raised THEN Raise(self, g, 1)
     ELSE LET pooled == enc.pooled_first_token_output
              d == Dropout(self.training, g, Len(pooled) * HiddenSize)
              out == [b \in DOMAIN pooled |->
                        Linear(self.linear,
                               [k \in DOMAIN pooled[b] |->
                                  Dropped(d, pooled[b][k], Flat2(b, k))])]
          IN Return(self, d.rng, d.hits, out)

\* SCPredict with the softmax taken over the batch axis (dim=0)
SCPredictDim0(self, x, g) ==
  LET f == SCForward(self, x, g)
  IN IF f.raised THEN f
     ELSE LET p == [c \in DOMAIN f.logits[1] |->
                      Softmax([b \in DOMAIN f.logits |-> f.logits[b][c]])]
          IN [f EXCEPT !.ret = [b \in DOMAIN f.logits |->
                                  Argmax([c \in DOMAIN p |-> p[c][b]])]]

\* SCPredict that first puts the head in evaluation mode (self.eval())
SCPredictEval(self, x, g) ==
  LET f == SCForward([self EXCEPT !.training = FALSE], x, g)
  IN IF f.raised THEN f
     ELSE [f EXCEPT !.ret = [b \in DOMAIN f.logits |-> Argmax(Softmax(f.logits[b]))]]

\* predict (lines 30-37)
SCPredict(self, x, g) ==
  LET f == SCForward(self, x, g)
  IN IF f.raised THEN f
     ELSE [f EXCEPT !.ret = [b \in DOMAIN f.logits |-> Argmax(Softmax(f.logits[b]))]]

(* ---------------------- BertForSequenceLabeling ------------------------- *)
\* forward (lines 51-60): the per-token output through dropout and the
\* linear layer
SLForward(self, x, g) ==
  LET enc == Encoder(x[1], x[2], x[3])
  IN IF enc.raised THEN Raise(self, g, 1)
     ELSE LET seq == enc.sequence_output
              L == Len(seq[1])
              d == Dropout(self.training, g, Len(seq) * L * HiddenSize)
              out == [b \in DOMAIN seq |-> [l \in DOMAIN seq[b] |->
                        Linear(self.linear,
                               [k \in DOMAIN seq[b][l] |->
                                  Dropped(d, seq[b][l][k], Flat3(L, b, l, k))])]]
          IN Return(self, d.rng, d.hits, out)

\* SLPredict with the arg-max taken over the sequence axis (dim=1)
SLPredictSeqAxis(self, x, g) ==
  LET f == SLForward(self, x, g)
  IN IF f.raised THEN f
     ELSE [f EXCEPT !.ret = [b \in DOMAIN f.logits |->
             [c \in DOMAIN f.logits[b][1] |->
                Argmax([l \in DOMAIN f.logits[b] |-> Softmax(f.logits[b][l])[c]])]]]

\* predict (lines 62-69)
SLPredict(self, x, g) ==
  LET f == SLForward(self, x, g)
  IN IF f.raised THEN f
     ELSE [f EXCEPT !.ret = [b \in DOMAIN f.logits |-> [l \in DOMAIN f.logits[b] |->
                                Argmax(Softmax(f.logits[b][l]))]]]

(* ---------------------- BertForQuestionAnswering ------------------------ *)
\* QAForward that calls the encoder again when it raised
QAForwardRetry(self, x, g) ==
  LET enc == Encoder(x[1], x[2], x[3])
  IN IF enc.raised THEN Raise(self, g, 2)
     ELSE LET seq == enc.sequence_output
              y == [b \in DOMAIN seq |-> [l \in DOMAIN seq[b] |->
                      Linear(self.linear, seq[b][l])]]
              out == <<[b \in DOMAIN y |-> [l \in DOMAIN y[b] |-> y[b][l][1]]],
                       [b \in DOMAIN y |-> [l \in DOMAIN y[b] |-> y[b][l][2]]]>>
          IN Return(self, g, {}, out)

\* QAForward with the dropout of line 91 (self.linear(self.dropout(..)))
QAForwardDropout(self, x, g) ==
  LET enc == Encoder(x[1], x[2], x[3])
  IN IF enc.raised THEN Raise(self, g, 1)
     ELSE LET seq == enc.sequence_output
              L == Len(seq[1])
              d == Dropout(self.training, g, Len(seq) * L * HiddenSize)
              y == [b \in DOMAIN seq |-> [l \in DOMAIN seq[b] |->
                      Linear(self.linear,
                             [k \in DOMAIN seq[b][l] |->
                                Dropped(d, seq[b][l][k], Flat3(L, b, l, k))])]]
              out == <<[b \in DOMAIN y |-> [l \in DOMAIN y[b] |-> y[b][l][1]]],
                       [b \in DOMAIN y |-> [l \in DOMAIN y[b] |-> y[b][l][2]]]>>
          IN Return(self, d.rng, d.hits, out)

\* forward (lines 84-95): the per-token output through the linear layer, no
\* dropout; returns x[:, :, 0] and x[:, :, 1]
QAForward(self, x, g) ==
  LET enc == Encoder(x[1], x[2], x[3])
  IN IF enc.raised THEN Raise(self, g, 1)
     ELSE LET seq == enc.sequence_output
              y == [b \in DOMAIN seq |-> [l \in DOMAIN seq[b] |->
                      Linear(self.linear, seq[b][l])]]
              out == <<[b \in DOMAIN y |-> [l \in DOMAIN y[b] |-> y[b][l][1]]],
                       [b \in DOMAIN y |-> [l \in DOMAIN y[b] |-> y[b][l][2]]]>>
          IN Return(self, g, {}, out)

\* QAPredict with the arg-max taken on the logits, without the softmax
QAPredictNoSoftmax(self, x, g) ==
  LET f == QAForward(self, x, g)
  IN IF f.raised THEN f
     ELSE [f EXCEPT !.ret =
             <<[b \in DOMAIN f.logits[1] |-> Argmax(f.logits[1][b])],
               [b \in DOMAIN f.logits[2] |-> Argmax(f.logits[2][b])]>>]

\* QAPredict that moves an end index lying before the start index up to it
QAPredictClamped(self, x, g) ==
  LET f == QAForward(self, x, g)
      st == [b \in DOMAIN f.logits[1] |-> Argmax(Softmax(f.logits[1][b]))]
      en == [b \in DOMAIN f.logits[2] |-> Argmax(Softmax(f.logits[2][b]))]
  IN IF f.raised THEN f
     ELSE [f EXCEPT !.ret =
             <<st, [b \in DOMAIN en |-> IF en[b] < st[b] THEN st[b] ELSE en[b]]>>]

\* predict (lines 97-105)
QAPredict(self, x, g) ==
  LET f == QAForward(self, x, g)
  IN IF f.raised THEN f
     ELSE [f EXCEPT !.ret =
             <<[b \in DOMAIN f.logits[1] |-> Argmax(Softmax(f.logits[1][b]))],
               [b \in DOMAIN f.logits[2] |-> Argmax(Softmax(f.logits[2][b]))]>>]

(* ------------------------------ the state ------------------------------- *)
NoHead == [kind |-> "none"]
NoCtor == [path |-> "unset"]
NoCall == [op |-> "none"]

\* NewHead whose linear layer is nn.Linear(hidden_size, hidden_size)
NewHeadSquare(kind, num_classes, seed) ==
  IF kind = "qa"
  THEN [kind |-> kind, training |-> TRUE,
        linear |-> LinearInit(seed, HiddenSize, QAOutputUnits)]
  ELSE [kind |-> kind, training |-> TRUE, num_classes |-> num_classes,
        linear |-> LinearInit(seed, HiddenSize, HiddenSize)]

\* __init__ of the three heads (lines 9-17, 41-49, 73-79): the encoder is
\* built, from_tf_checkpoint is called with the path as given, then the
\* linear layer is made; a module starts in training mode.
NewHead(kind, num_classes, seed) ==
  IF kind = "qa"
  THEN [kind |-> kind, training |-> TRUE,
        linear |-> LinearInit(seed, HiddenSize, QAOutputUnits)]
  ELSE [kind |-> kind, training |-> TRUE, num_classes |-> num_classes,
        linear |-> LinearInit(seed, HiddenSize, num_classes)]

\* the calls of from_tf_checkpoint one construction with this path makes
LoadCalls(path) == 1

Construct(kind, num_classes, path, seed) ==
  /\ head = NoHead
  /\ ctor' = [path |-> path, loadCalls |-> LoadCalls(path),
              raised |-> LoadCalls(path) > 0 /\ LoadRaises(path)]
  /\ head' = IF ctor'.raised THEN NoHead ELSE NewHead(kind, num_classes, seed)
  /\ UNCHANGED <<inp, rng, call, repeat>>

\* nn.Module.train() and nn.Module.eval()
Train ==
  /\ head # NoHead
  /\ head' = [head EXCEPT !.training = TRUE]
  /\ UNCHANGED <<ctor, inp, rng, call, repeat>>
Eval ==
  /\ head # NoHead
  /\ head' = [head EXCEPT !.training = FALSE]
  /\ UNCHANGED <<ctor, inp, rng, call, repeat>>

ForwardOf(self, x, g) ==
  CASE self.kind = "sc" -> SCForward(self, x, g)
    [] self.kind = "sl" -> SLForward(self, x, g)
    [] self.kind = "qa" -> QAForward(self, x, g)
PredictOf(self, x, g) ==
  CASE self.kind = "sc" -> SCPredict(self, x, g)
    [] self.kind = "sl" -> SLPredict(self, x, g)
    [] self.kind = "qa" -> QAPredict(self, x, g)

\* what the caller sees of one call: the operation, the mode it ran in, the
\* result; `repeat` says that the call before was the same operation on the
\* same input in the same mode.
Seen(op, r) ==
  [op |-> op, training |-> head.training, raised |-> r.raised,
   encCalls |-> r.encCalls, dropped |-> r.dropped, logits |-> r.logits,
   ret |-> r.ret]

Forward ==
  /\ head # NoHead
  /\ LET r == ForwardOf(head, inp, rng)
     IN /\ call' = Seen("forward", r)
        /\ head' = r.self
        /\ rng' = r.rng
  /\ repeat' = (call.op = "forward" /\ call.training = head.training)
  /\ UNCHANGED <<ctor, inp>>
Predict ==
  /\ head # NoHead
  /\ LET r == PredictOf(head, inp, rng)
     IN /\ call' = Seen("predict", r)
        /\ head' = r.self
        /\ rng' = r.rng
  /\ repeat' = (call.op = "predict" /\ call.training = head.training)
  /\ UNCHANGED <<ctor, inp>>

Init ==
  /\ head = NoHead
  /\ ctor = NoCtor
  /\ call = NoCall
  /\ repeat = FALSE
  /\ inp \in Inputs
  /\ rng \in RngStates

Next ==
  \/ \E kind \in Kinds, num_classes \in 1..MaxClasses, path \in Paths, seed \in Seeds :
       Construct(kind, num_classes, path, seed)
  \/ Train
  \/ Eval
  \/ Forward
  \/ Predict

Spec == Init /\ [][Next]_vars

(* ------------------------------ claims --------------------------------- *)
IsVector(t, n) == DOMAIN t = 1..n /\ \A i \in 1..n : t[i] \in Int
IsMatrix(t, n, m) == DOMAIN t = 1..n /\ \A i \in 1..n : IsVector(t[i], m)
IsCube(t, n, m, o) == DOMAIN t = 1..n /\ \A i \in 1..n : IsMatrix(t[i], m, o)
IndexVector(t, n, hi) == DOMAIN t = 1..n /\ \A i \in 1..n : t[i] \in 0..(hi - 1)
IndexMatrix(t, n, m, hi) == DOMAIN t = 1..n /\ \A i \in 1..n : IndexVector(t[i], m, hi)

Returned(op) == call.op = op /\ ~call.raised
\* the lowest position (0-based) of the largest element of x
FirstMax(x) ==
  (CHOOSE i \in DOMAIN x : /\ \A j \in DOMAIN x : x[j] <= x[i]
                           /\ \A j \in 1..(i - 1) : x[j] < x[i]) - 1
\* the score vectors a predict call took an arg-max of, each with the index
\* it returned for it
Selections ==
  CASE head.kind = "sc" ->
         {<<call.logits[b], call.ret[b]>> : b \in DOMAIN call.logits}
    [] head.kind = "sl" ->
         {<<call.logits[b][l], call.ret[b][l]>> :
            b \in DOMAIN call.logits, l \in 1..SeqLenOf(inp)}
    [] head.kind = "qa" ->
         {<<call.logits[s][b], call.ret[s][b]>> : s \in 1..2, b \in 1..BatchOf(inp)}

\* C1: forward returns shape (B, num_classes) on the classification head,
\* (B, L, num_classes) on the labeling head and two tensors of shape (B, L)
\* on the question-answering head, for every B, L, num_classes >= 1.
C1_ForwardShapes ==
  Returned("forward") =>
    CASE head.kind = "sc" ->
           IsMatrix(call.ret, BatchOf(inp), head.num_classes)
      [] head.kind = "sl" ->
           IsCube(call.ret, BatchOf(inp), SeqLenOf(inp), head.num_classes)
      [] head.kind = "qa" ->
           /\ DOMAIN call.ret = 1..2
           /\ IsMatrix(call.ret[1], BatchOf(inp), SeqLenOf(inp))
           /\ IsMatrix(call.ret[2], BatchOf(inp), SeqLenOf(inp))
C1_Witness ==
  /\ Returned("forward")
  /\ head.kind = "sc"
  /\ head.num_classes = 1
  /\ SeqLenOf(inp) > 1

\* C2: predict returns one class index per batch element (shape (B,), in
\* 0..num_classes-1) on the classification head, one per token (shape
\* (B, L)) on the labeling head, and two tensors of shape (B,) of positions
\* in 0..L-1 on the question-answering head.
C2_PredictShapes ==
  Returned("predict") =>
    CASE head.kind = "sc" ->
           IndexVector(call.ret, BatchOf(inp), head.num_classes)
      [] head.kind = "sl" ->
           IndexMatrix(call.ret, BatchOf(inp), SeqLenOf(inp), head.num_classes)
      [] head.kind = "qa" ->
           /\ DOMAIN call.ret = 1..2
           /\ IndexVector(call.ret[1], BatchOf(inp), SeqLenOf(inp))
           /\ IndexVector(call.ret[2], BatchOf(inp), SeqLenOf(inp))
C2_Witness ==
  /\ Returned("predict")
  /\ head.kind = "sl"
  /\ head.num_classes > 1
  /\ SeqLenOf(inp) > 1
  /\ \E b \in DOMAIN call.ret : \E l \in DOMAIN call.ret[b] : call.ret[b][l] > 0

\* C3 as stated: on the question-answering head the start (end) index that
\* predict returns is the lowest position of the maximum of the start (end)
\* logit vector.
C3_Original ==
  (Returned("predict") /\ head.kind = "qa") =>
    \A s \in 1..2 : \A b \in 1..BatchOf(inp) :
      call.ret[s][b] = FirstMax(call.logits[s][b])
\* C3 as amended: the start (end) index is the lowest position at which the
\* softmax of the start (end) logit vector is largest; it lies at or before
\* the lowest position of the maximum logit and has the same softmax value.
C3_Amended ==
  (Returned("predict") /\ head.kind = "qa") =>
    \A s \in 1..2 : \A b \in 1..BatchOf(inp) :
      LET p == Softmax(call.logits[s][b])
          i == call.ret[s][b] + 1
          m == FirstMax(call.logits[s][b]) + 1
      IN /\ \A j \in DOMAIN p : p[j] <= p[i]
         /\ \A j \in 1..(i - 1) : p[j] < p[i]
         /\ i <= m
         /\ p[i] = p[m]
C3_Witness ==
  /\ Returned("predict")
  /\ head.kind = "qa"
  /\ \E s \in 1..2 : \E b \in 1..BatchOf(inp) :
       call.ret[s][b] < FirstMax(call.logits[s][b])

\* C4: in evaluation mode a forward (predict) call that repeats the call
\* before it, on the same input with the parameters unchanged, returns what
\* that call returned.
C4_EvalIdempotent ==
  [][(repeat' /\ ~call'.training /\ head' = head)
       => (call'.raised = call.raised /\ call'.ret = call.ret)]_vars
C4_Witness ==
  /\ repeat
  /\ Returned("forward")
  /\ ~call.training
  /\ head.kind = "sc"

\* C5 as stated: the index predict selects by arg-max of the softmax of a
\* score vector is the index arg-max selects on the score vector itself.
C5_Original ==
  Returned("predict") => \A sel \in Selections : sel[2] = FirstMax(sel[1])
\* C5 as amended: softmax preserves the order of the scores but not their
\* strict order, so the selected index is that of arg-max on the scores
\* unless a lower position holds a smaller score with the same softmax
\* value, which is then selected.
C5_Amended ==
  Returned("predict") =>
    \A sel \in Selections :
      LET x == sel[1]
          p == Softmax(x)
          i == sel[2] + 1
          m == FirstMax(x) + 1
      IN /\ \A a, b \in DOMAIN x : x[a] <= x[b] => p[a] <= p[b]
         /\ i # m => (i < m /\ x[i] < x[m] /\ p[i] = p[m])
         /\ (\A j \in 1..(m - 1) : p[j] < p[m]) => i = m
C5_Witness ==
  /\ Returned("predict")
  /\ \E sel \in Selections : sel[2] = FirstMax(sel[1]) /\ sel[2] > 0
  /\ \E sel \in Selections : sel[2] < FirstMax(sel[1])

\* C6 as stated: a construction without a checkpoint path performs no
\* checkpoint-loading step; loading happens only when a path is supplied.
C6_Original ==
  ctor # NoCtor => (ctor.loadCalls > 0 <=> ctor.path # NoPath)

\* C7: a call completes with an output or raises: the encoder is invoked
\* exactly once per forward and per predict call, its exception reaches the
\* caller with no output, and a raising checkpoint load leaves no head.
C7_RaiseOrReturn ==
  /\ call # NoCall =>
       /\ call.encCalls = 1
       /\ call.raised = Encoder(inp[1], inp[2], inp[3]).raised
       /\ call.raised <=> call.ret = NoOut
  /\ (ctor # NoCtor /\ LoadRaises(ctor.path)) => (ctor.raised /\ head = NoHead)
C7_Witness ==
  /\ call # NoCall
  /\ call.op = "predict"
  /\ call.raised

\* C8: the question-answering head's predict selects the end index from
\* the end logits alone, also when it lies before the start index.
C8_NoSpanCorrection ==
  (Returned("predict") /\ head.kind = "qa") =>
    \A b \in 1..BatchOf(inp) :
      LET ps == Softmax(call.logits[1][b])
          pe == Softmax(call.logits[2][b])
      IN /\ ps[call.ret[1][b] + 1] = MaxOf(ps)
         /\ pe[call.ret[2][b] + 1] = MaxOf(pe)
C8_Witness ==
  /\ Returned("predict")
  /\ head.kind = "qa"
  /\ SeqLenOf(inp) >= 2
  /\ \E b \in 1..BatchOf(inp) : call.ret[2][b] < call.ret[1][b]

\* the projection of one encoder vector v whose elements have the flat
\* indices j0 + 1, j0 + 2, ..: dropout applied when `dropping`
Projected(v, j0, dropping) ==
  [c \in DOMAIN head.linear.weight |->
     head.linear.bias[c]
     + Dot([k \in DOMAIN v |->
              IF ~dropping THEN v[k]
              ELSE IF (j0 + k) \in call.dropped THEN 0
              ELSE RoundDiv(v[k] * DropDen, DropDen - DropNum)],
           head.linear.weight[c], Len(v))]

\* C9: in evaluation mode forward is the linear projection of the encoder's
\* pooled (classification) or per-token (labeling) output; in training mode
\* those heads apply dropout before the projection, also through predict;
\* the question-answering head applies no dropout in either mode.
C9_DropoutGating ==
  (call # NoCall /\ ~call.raised) =>
    LET enc == Encoder(inp[1], inp[2], inp[3])
        L == SeqLenOf(inp)
    IN CASE head.kind = "sc" ->
              \A b \in 1..BatchOf(inp) :
                call.logits[b] =
                  Projected(enc.pooled_first_token_output[b],
                            (b - 1) * HiddenSize, call.training)
         [] head.kind = "sl" ->
              \A b \in 1..BatchOf(inp) : \A l \in 1..L :
                call.logits[b][l] =
                  Projected(enc.sequence_output[b][l],
                            ((b - 1) * L + (l - 1)) * HiddenSize, call.training)
         [] head.kind = "qa" ->
              \A b \in 1..BatchOf(inp) : \A l \in 1..L :
                <<call.logits[1][b][l], call.logits[2][b][l]>> =
                  Projected(enc.sequence_output[b][l], 0, FALSE)
C9_Witness ==
  /\ Returned("predict")
  /\ head.kind = "sc"
  /\ call.training
  /\ call.dropped # {}
  /\ call.logits # [b \in 1..BatchOf(inp) |->
                      Linear(head.linear,
                             Encoder(inp[1], inp[2], inp[3]).pooled_first_token_output[b])]

\* C10: a forward or predict call leaves the head as it was: weight, bias,
\* num_classes and the train/eval flag.
C10_HeadUnchanged ==
  [][(\/ call'.op # call.op
      \/ call.op # "none" /\ call'.training # call.training
      \/ repeat' # repeat
      \/ rng' # rng) => head' = head]_vars
C10_Witness ==
  /\ Returned("predict")
  /\ repeat
  /\ call.training
  /\ head.training

====
